---- MODULE Spec2Model ----
(***************************************************************************)
(* Model of gloria/datasets/pretraining_dataset.py:                        *)
(*   MultimodalPretrainingDataset (caption extraction, caption cache,      *)
(*   caption selection, image resize-and-pad) and multimodal_collate_fn.   *)
(*                                                                         *)
(* Text is modelled as sequences of one-character strings.  The characters *)
(* that stand for something other than themselves are                      *)
(*   "nl"     the newline character,                                       *)
(*   "u00e9"  a non-ASCII letter (matches \w, removed by the ASCII encode),*)
(*   "ufffd"  U+FFFD, the replacement character (does not match \w).       *)
(***************************************************************************)
EXTENDS Integers, Sequences, FiniteSets, TLC

VARIABLES
    pc,           \* the entry point under study and whether it has run
    df,           \* the data frame: the argument of create_path_2_sent_mapping,
                  \* or the merged tables that __init__ reads
    max_word_num, \* cfg.data.text.captions_per_image
    mapping,      \* what create_path_2_sent_mapping ended with
    file,         \* the caption file captions.pickle
    calls,        \* the load_text_data calls made so far, oldest first
    builds,       \* how often load_text_data ran create_path_2_sent_mapping
    edits,        \* how often the tables on disk changed
    caption,      \* outcome of the last get_caption
    procs,        \* the concurrent callers of load_text_data
    overlap,      \* a caller tested the file while another was building it
    img,          \* [h, w, scale]: the arguments of _resize_img
    resized,      \* outcome of _resize_img
    batch,        \* the list of samples handed to multimodal_collate_fn
    out           \* what multimodal_collate_fn returned

vars == <<pc, df, max_word_num, mapping, file, calls, builds, edits, caption,
          procs, overlap, img, resized, batch, out>>

(***************************************************************************)
(* Bounds of the model.                                                    *)
(***************************************************************************)
MaxReportLen == 4     \* longest report over the full alphabet
MaxPlainLen == 7      \* longest report over the alphabet {a, space, period}
MaxWordNum == 3       \* largest max_word_num
MaxRows == 3          \* most rows of a data frame given to create_path_2_sent_mapping
MaxCacheRows == 2     \* most rows of the merged tables
MaxCalls == 3         \* most load_text_data calls in a row
MaxEdits == 1         \* most changes of the tables on disk
NumProcs == 2         \* concurrent callers of load_text_data
MaxDim == 12          \* largest image height and width
MaxScale == 16        \* largest cfg.data.image.imsize
MaxBatch == 3         \* largest batch
MaxTokens == 5        \* largest cfg.data.text.word_num

None == "None"

(***************************************************************************)
(* Generic helpers on sequences.                                           *)
(***************************************************************************)
RECURSIVE SeqsUpTo(_, _)
SeqsUpTo(S, n) ==
    IF n = 0 THEN {<< >>}
    ELSE LET shorter == SeqsUpTo(S, n - 1)
         IN  shorter \cup {Append(s, c) : s \in {t \in shorter : Len(t) = n - 1}, c \in S}

Range(s) == {s[i] : i \in DOMAIN s}

RECURSIVE Flatten(_)
Flatten(ss) ==
    IF Len(ss) = 0 THEN << >>
    ELSE IF Len(ss) = 1 THEN ss[1]
    ELSE LET half == Len(ss) \div 2
         IN  Flatten(SubSeq(ss, 1, half)) \o Flatten(SubSeq(ss, half + 1, Len(ss)))

(***************************************************************************)
(* Characters.                                                             *)
(***************************************************************************)
Digits == {"1"}
AsciiLetters == {"a", "b", "B"}
NonAsciiLetters == {"u00e9"}
WordChars == AsciiLetters \cup Digits \cup NonAsciiLetters
Alphabet == {"a", "B", "1", ".", " ", "nl", "u00e9", "ufffd"}
PlainAlphabet == {"a", " ", "."}
NotAString == <<"float">>   \* a report cell that is not a str (NaN)

\* str.replace("\n", " ")
ReplaceNewline(s) == [i \in DOMAIN s |-> IF s[i] = "nl" THEN " " ELSE s[i]]

\* str.lower()
Lower(s) == [i \in DOMAIN s |-> IF s[i] = "B" THEN "b" ELSE s[i]]

\* str.encode("ascii", "ignore").decode("ascii")
AsciiIgnore(s) == SelectSeq(s, LAMBDA c : c \notin NonAsciiLetters /\ c # "ufffd")

\* str.replace(U+FFFD U+FFFD, " "): leftmost non-overlapping occurrences
RECURSIVE ReplaceBadPair(_)
ReplaceBadPair(s) ==
    IF Len(s) = 0 THEN << >>
    ELSE IF Len(s) >= 2 /\ s[1] = "ufffd" /\ s[2] = "ufffd"
         THEN <<" ">> \o ReplaceBadPair(SubSeq(s, 3, Len(s)))
         ELSE <<s[1]>> \o ReplaceBadPair(Tail(s))

\* length of the run of digits that starts s
RECURSIVE DigitRun(_)
DigitRun(s) == IF Len(s) > 0 /\ s[1] \in Digits THEN 1 + DigitRun(Tail(s)) ELSE 0

\* re.compile("[0-9]+\.").split(s): cur is the piece being collected
RECURSIVE BulletSplit(_, _)
BulletSplit(s, cur) ==
    IF Len(s) = 0 THEN <<cur>>
    ELSE LET n == DigitRun(s)
         IN  IF n = 0 THEN BulletSplit(Tail(s), Append(cur, s[1]))
             ELSE IF Len(s) > n /\ s[n + 1] = "."
                  THEN <<cur>> \o BulletSplit(SubSeq(s, n + 2, Len(s)), << >>)
                  ELSE BulletSplit(SubSeq(s, n + 1, Len(s)), cur \o SubSeq(s, 1, n))

\* str.split("."): cur is the piece being collected
RECURSIVE PeriodSplit(_, _)
PeriodSplit(s, cur) ==
    IF Len(s) = 0 THEN <<cur>>
    ELSE IF s[1] = "." THEN <<cur>> \o PeriodSplit(Tail(s), << >>)
         ELSE PeriodSplit(Tail(s), Append(cur, s[1]))

\* the sentence candidates of a report (lines 157-163)
SplitSentences(captions) ==
    LET points == BulletSplit(ReplaceNewline(captions), << >>)
    IN  Flatten([i \in DOMAIN points |-> PeriodSplit(points[i], << >>)])

\* RegexpTokenizer(r"\w+").tokenize(s): maximal runs of word characters
RECURSIVE Tokenize(_, _)
Tokenize(s, cur) ==
    IF Len(s) = 0 THEN (IF cur = << >> THEN << >> ELSE <<cur>>)
    ELSE IF s[1] \in WordChars THEN Tokenize(Tail(s), Append(cur, s[1]))
         ELSE (IF cur = << >> THEN << >> ELSE <<cur>>) \o Tokenize(Tail(s), << >>)

\* the tokens kept for a sentence (lines 185-189)
IncludedTokens(tokens) ==
    SelectSeq([i \in DOMAIN tokens |-> AsciiIgnore(tokens[i])], LAMBDA t : Len(t) > 0)

\* " ".join(tokens)
RECURSIVE JoinSpace(_)
JoinSpace(tokens) ==
    IF Len(tokens) = 0 THEN << >>
    ELSE IF Len(tokens) = 1 THEN tokens[1]
         ELSE tokens[1] \o <<" ">> \o JoinSpace(Tail(tokens))

(***************************************************************************)
(* The loop over the sentence candidates of one report (lines 165-197).    *)
(* st = [study_sent, cnt, sent_lens] are the loop's variables.              *)
(***************************************************************************)
RECURSIVE CaptionLoop(_, _, _)
CaptionLoop(captions, st, mwn) ==
    IF Len(captions) = 0 THEN st
    ELSE LET cap == Head(captions)
             tokens == Tokenize(Lower(ReplaceBadPair(cap)), << >>)
             included_tokens == IncludedTokens(tokens)
             cnt == st.cnt + Len(included_tokens)
             appended == [st EXCEPT !.study_sent = Append(@, JoinSpace(included_tokens)),
                                    !.cnt = cnt]
         IN  IF Len(cap) = 0 THEN CaptionLoop(Tail(captions), st, mwn)
             ELSE IF Len(tokens) <= 1 THEN CaptionLoop(Tail(captions), st, mwn)
             ELSE IF cnt = mwn THEN appended
             ELSE CaptionLoop(Tail(captions),
                              [appended EXCEPT !.sent_lens = Append(@, Len(included_tokens))],
                              mwn)

(***************************************************************************)
(* dict: a sequence of [key, value] entries in insertion order.            *)
(***************************************************************************)
Keys(d) == {d[i].key : i \in DOMAIN d}

DictGet(d, k) == LET i == CHOOSE j \in DOMAIN d : d[j].key = k IN d[i].value

\* d[k] = v
DictSet(d, k, v) ==
    IF k \in Keys(d)
    THEN [i \in DOMAIN d |-> IF d[i].key = k THEN [key |-> k, value |-> v] ELSE d[i]]
    ELSE Append(d, [key |-> k, value |-> v])

(***************************************************************************)
(* One iteration of the loop over the rows (lines 145-204).                *)
(* acc = [path2sent, to_remove, sent_lens, num_sents].                     *)
(***************************************************************************)
IsStr(x) == x # NotAString

DropOnlyEmptyReports(acc, row, mwn) ==
    LET captions == IF IsStr(row.impression) THEN row.impression ELSE << >>
        done == CaptionLoop(SplitSentences(captions),
                            [study_sent |-> << >>, cnt |-> 0, sent_lens |-> acc.sent_lens],
                            mwn)
    IN  [path2sent |-> IF Len(done.study_sent) > 0
                       THEN DictSet(acc.path2sent, row.img_path, done.study_sent)
                       ELSE acc.path2sent,
         to_remove |-> IF Len(captions) = 0 THEN Append(acc.to_remove, row.img_path)
                       ELSE acc.to_remove,
         sent_lens |-> done.sent_lens,
         num_sents |-> Append(acc.num_sents, Len(done.study_sent))]

ProcessRow(acc, row, mwn) ==
    LET captions == IF IsStr(row.impression) THEN row.impression ELSE << >>
        removed == IF Len(captions) = 0 THEN Append(acc.to_remove, row.img_path)
                   ELSE acc.to_remove
        done == CaptionLoop(SplitSentences(captions),
                            [study_sent |-> << >>, cnt |-> 0, sent_lens |-> acc.sent_lens],
                            mwn)
    IN  [path2sent |-> IF Len(done.study_sent) > 0
                       THEN DictSet(acc.path2sent, row.img_path, done.study_sent)
                       ELSE acc.path2sent,
         to_remove |-> IF Len(done.study_sent) > 0 THEN removed
                       ELSE Append(removed, row.img_path),
         sent_lens |-> done.sent_lens,
         num_sents |-> Append(acc.num_sents, Len(done.study_sent))]

RECURSIVE StopAtNonString(_, _, _)
StopAtNonString(rows, acc, mwn) ==
    IF Len(rows) = 0 \/ ~IsStr(Head(rows).impression) THEN acc
    ELSE StopAtNonString(Tail(rows), ProcessRow(acc, Head(rows), mwn), mwn)

RECURSIVE RowLoop(_, _, _)
RowLoop(rows, acc, mwn) ==
    IF Len(rows) = 0 THEN acc
    ELSE RowLoop(Tail(rows), ProcessRow(acc, Head(rows), mwn), mwn)

(***************************************************************************)
(* create_path_2_sent_mapping (lines 141-216).  The statistics printed at  *)
(* the end take sent_lens.min(), which numpy refuses for an empty array:   *)
(* raised tells whether the call ended in that ValueError.  path2sent and  *)
(* to_remove are the locals at the end of the loop, returned unless raised.*)
(***************************************************************************)
CreatePath2SentMapping(rows, mwn) ==
    LET acc == RowLoop(rows,
                       [path2sent |-> << >>, to_remove |-> << >>,
                        sent_lens |-> << >>, num_sents |-> << >>],
                       mwn)
    IN  [raised |-> Len(acc.sent_lens) = 0,
         path2sent |-> acc.path2sent,
         to_remove |-> acc.to_remove,
         sent_lens |-> acc.sent_lens,
         num_sents |-> acc.num_sents]

(***************************************************************************)
(* IEEE 754 binary64 arithmetic on positive values, as Python's float does *)
(* it (round to nearest, ties to even).  A significand is a sequence of    *)
(* bits, most significant first; a float is [bits, exp] with value         *)
(* bits * 2^exp.  Only the operations _resize_img uses are modelled:       *)
(* int / float(int), float(int) * float, int(float).                       *)
(***************************************************************************)
MantissaBits == 53

RECURSIVE BitsValue(_)
BitsValue(bits) ==
    IF Len(bits) = 0 THEN 0
    ELSE 2 * BitsValue(SubSeq(bits, 1, Len(bits) - 1)) + bits[Len(bits)]

\* bits + 1, one bit longer when the carry runs off the top
RECURSIVE Increment(_)
Increment(bits) ==
    IF Len(bits) = 0 THEN <<1>>
    ELSE IF bits[Len(bits)] = 0 THEN SubSeq(bits, 1, Len(bits) - 1) \o <<1>>
         ELSE Increment(SubSeq(bits, 1, Len(bits) - 1)) \o <<0>>

\* the next n quotient bits of rem / d, where rem < d; the last element is the
\* remainder left over
RECURSIVE DivBits(_, _, _)
DivBits(rem, d, n) ==
    IF n = 0 THEN <<rem>>
    ELSE IF 2 * rem >= d THEN <<1>> \o DivBits(2 * rem - d, d, n - 1)
         ELSE <<0>> \o DivBits(2 * rem, d, n - 1)

\* the least k with x < y * 2^k, for 0 < y <= x
RECURSIVE ShiftAbove(_, _)
ShiftAbove(x, y) == IF x < y THEN 0 ELSE 1 + ShiftAbove(x, 2 * y)

\* round an exact value bits * 2^exp with a nonzero leading bit to MantissaBits
\* bits; sticky tells that nonzero bits lie below bits
RoundFloat(bits, exp, sticky) ==
    IF Len(bits) <= MantissaBits THEN [bits |-> bits, exp |-> exp]
    ELSE LET kept == SubSeq(bits, 1, MantissaBits)
             dropped == SubSeq(bits, MantissaBits + 1, Len(bits))
             half == dropped[1] = 1
             below == sticky \/ \E i \in 2..Len(dropped) : dropped[i] = 1
             up == half /\ (below \/ kept[MantissaBits] = 1)
         IN  [bits |-> IF up THEN Increment(kept) ELSE kept,
              exp |-> exp + Len(dropped)]

\* n / float(d) for integers n, d >= 1: the quotient is first scaled by 2^lead
\* into [1, 2) when it is below 1
FloatDiv(n, d) ==
    LET lead == IF n < d THEN ShiftAbove(d - 1, n) ELSE 0
        num == n * (2 ^ lead)
        whole == num \div d
        ib == ShiftAbove(whole, 1)
        int_bits == [i \in 1..ib |-> (whole \div (2 ^ (ib - i))) % 2]
        frac == DivBits(num % d, d, MantissaBits + 1 - ib)
        fb == Len(frac) - 1
    IN  RoundFloat(int_bits \o SubSeq(frac, 1, fb), -fb - lead, frac[fb + 1] # 0)

\* bits * k, least significant bit first, then the carry
RECURSIVE MulBitsRev(_, _, _)
MulBitsRev(rev, k, carry) ==
    IF Len(rev) = 0
    THEN (IF carry = 0 THEN << >> ELSE <<carry % 2>> \o MulBitsRev(rev, k, carry \div 2))
    ELSE LET t == rev[1] * k + carry
         IN  <<t % 2>> \o MulBitsRev(Tail(rev), k, t \div 2)

Reverse(s) == [i \in DOMAIN s |-> s[Len(s) + 1 - i]]

\* float(k) * f for an integer k >= 1
FloatMul(k, f) ==
    RoundFloat(Reverse(MulBitsRev(Reverse(f.bits), k, 0)), f.exp, FALSE)

\* int(f): truncation toward zero
FloatToInt(f) ==
    IF f.exp >= 0 THEN BitsValue(f.bits) * (2 ^ f.exp)
    ELSE IF Len(f.bits) + f.exp <= 0 THEN 0
    ELSE BitsValue(SubSeq(f.bits, 1, Len(f.bits) + f.exp))

(***************************************************************************)
(* _resize_img (lines 218-264) on the shape of the image: img.shape is     *)
(* (h, w).  cv2.resize rejects a destination size with a zero side, and    *)
(* np.pad rejects a negative pad width: raised tells that the call ended   *)
(* in that error.                                                          *)
(***************************************************************************)
Max(a, b) == IF a >= b THEN a ELSE b

\* int(float(other) * (scale / float(longest)))
ScaledSize(other, scale, longest) == FloatToInt(FloatMul(other, FloatDiv(scale, longest)))

\* int(np.floor(pad_size / 2)) and int(np.ceil(pad_size / 2))
FloorHalf(n) == n \div 2
CeilHalf(n) == (n + 1) \div 2

ResizeImg(h, w, scale) ==
    LET max_ind == IF h = Max(h, w) THEN 0 ELSE 1
        desireable_size == IF max_ind = 0 THEN <<scale, ScaledSize(w, scale, h)>>
                           ELSE <<ScaledSize(h, scale, w), scale>>
        pad_size == IF max_ind = 0 THEN scale - desireable_size[2]
                    ELSE scale - desireable_size[1]
        top == IF max_ind = 0 THEN 0 ELSE FloorHalf(pad_size)
        bottom == IF max_ind = 0 THEN 0 ELSE CeilHalf(pad_size)
        left == IF max_ind = 0 THEN FloorHalf(pad_size) ELSE 0
        right == IF max_ind = 0 THEN CeilHalf(pad_size) ELSE 0
    IN  IF desireable_size[1] <= 0 \/ desireable_size[2] <= 0 \/ pad_size < 0
        THEN [raised |-> TRUE, max_ind |-> max_ind, resized_shape |-> desireable_size]
        ELSE [raised |-> FALSE, max_ind |-> max_ind, resized_shape |-> desireable_size,
              top |-> top, bottom |-> bottom, left |-> left, right |-> right,
              shape |-> <<top + desireable_size[1] + bottom,
                          left + desireable_size[2] + right>>]

(***************************************************************************)
(* pickle, protocol 2, for the value [path2sent, to_remove]: the opcode    *)
(* stream pickle.dump writes and the stack machine pickle.load runs.  The  *)
(* PROTO header and the memo opcodes (BINPUT, BINGET), which do not change *)
(* the value that is loaded, are left out.                                 *)
(***************************************************************************)
Op(name, arg) == [op |-> name, arg |-> arg]

\* the pickler writes the items of a list or a dict in groups of at most
\* BatchSize
BatchSize == 1000

\* batch_list / batch_dict of the pickler, for two items or more: groups
\* MARK items plural of at most BatchSize items each.  The list loop goes on
\* while items are left; the dict loop goes on while the last group was
\* full, so a dict of a multiple of BatchSize items ends in an empty group.
RECURSIVE Groups(_, _)
Groups(items, plural) ==
    LET n == IF Len(items) < BatchSize THEN Len(items) ELSE BatchSize
        group == <<Op("MARK", << >>)>> \o Flatten(SubSeq(items, 1, n))
                 \o <<Op(plural, << >>)>>
        rest == SubSeq(items, n + 1, Len(items))
        again == IF plural = "SETITEMS" THEN n = BatchSize ELSE Len(rest) > 0
    IN  IF again THEN group \o Groups(rest, plural) ELSE group

\* save_list / save_dict after the EMPTY_LIST / EMPTY_DICT opcode: nothing
\* for no item, the single opcode for one item, groups otherwise
Batch(items, single, plural) ==
    IF Len(items) = 0 THEN << >>
    ELSE IF Len(items) = 1 THEN items[1] \o <<Op(single, << >>)>>
    ELSE Groups(items, plural)

DumpStr(str) == <<Op("BINUNICODE", str)>>

DumpStrList(l) ==
    <<Op("EMPTY_LIST", << >>)>> \o Batch([i \in DOMAIN l |-> DumpStr(l[i])], "APPEND", "APPENDS")

DumpDict(d) ==
    <<Op("EMPTY_DICT", << >>)>>
    \o Batch([i \in DOMAIN d |-> DumpStr(d[i].key) \o DumpStrList(d[i].value)],
             "SETITEM", "SETITEMS")

DumpWithoutToRemove(path2sent, to_remove) ==
    <<Op("EMPTY_LIST", << >>)>>
    \o Batch(<<DumpDict(path2sent), DumpStrList(<< >>)>>, "APPEND", "APPENDS")
    \o <<Op("STOP", << >>)>>

\* pickle.dump([path2sent, to_remove], f, protocol=2)
PickleDump(path2sent, to_remove) ==
    <<Op("EMPTY_LIST", << >>)>>
    \o Batch(<<DumpDict(path2sent), DumpStrList(to_remove)>>, "APPEND", "APPENDS")
    \o <<Op("STOP", << >>)>>

\* The unpickler's stack holds [k, v] items, the top last.
Item(k, v) == [k |-> k, v |-> v]

Top(stack) == stack[Len(stack)]
Pop(stack, n) == SubSeq(stack, 1, Len(stack) - n)

\* index of the topmost MARK, 0 when there is none
RECURSIVE MarkIndex(_)
MarkIndex(stack) ==
    IF Len(stack) = 0 THEN 0
    ELSE IF Top(stack).k = "mark" THEN Len(stack)
    ELSE MarkIndex(Pop(stack, 1))

RECURSIVE SetItems(_, _)
SetItems(d, kv) ==
    IF Len(kv) < 2 THEN d
    ELSE SetItems(DictSet(d, kv[1], kv[2]), SubSeq(kv, 3, Len(kv)))

Error(class) == Item("error", class)

\* a str is the only hashable object the opcodes of this stream can build
Unhashable(keys) == \E i \in DOMAIN keys : keys[i].k # "str"

OddPositions(s) == [i \in 1..((Len(s) + 1) \div 2) |-> s[2 * i - 1]]

\* list.append(item, ...) called on the object obj
Appends(obj, items) ==
    IF Len(items) = 0 THEN obj
    ELSE IF obj.k # "list" THEN Error("AttributeError")
    ELSE Item("list", obj.v \o items)

\* obj[key] = value for the (key, value, key, value, ...) sequence kv
AssignItems(obj, kv) ==
    IF Len(kv) = 0 THEN obj
    ELSE IF obj.k # "dict" \/ Unhashable(OddPositions(kv)) THEN Error("TypeError")
    ELSE Item("dict", SetItems(obj.v, kv))

\* Unpickler.load: the object on top of the stack at STOP.  The errors are
\* EOFError when the stream ends before STOP, UnpicklingError for an unknown
\* opcode, a stack underflow or a misplaced MARK, AttributeError when APPEND
\* or APPENDS finds no list, TypeError when SETITEM or SETITEMS finds no dict
\* or an unhashable key.
RECURSIVE Unpickle(_, _)
Unpickle(ops, stack) ==
    IF Len(ops) = 0 THEN Error("EOFError")
    ELSE LET o == Head(ops)
             rest == Tail(ops)
             n == Len(stack)
             m == MarkIndex(stack)
             bad == Error("UnpicklingError")
             \* the stack after the top c items are replaced by obj
             Put(c, obj) == IF obj.k = "error" THEN obj
                            ELSE Unpickle(rest, Append(Pop(stack, c), obj))
             \* the top c items are there and none of them is a MARK
             Has(c) == n >= c /\ m <= n - c
         IN  CASE o.op = "STOP" -> IF Has(1) THEN Top(stack) ELSE bad
               [] o.op = "EMPTY_LIST" -> Put(0, Item("list", << >>))
               [] o.op = "EMPTY_DICT" -> Put(0, Item("dict", << >>))
               [] o.op = "MARK" -> Put(0, Item("mark", << >>))
               [] o.op = "BINUNICODE" -> Put(0, Item("str", o.arg))
               [] o.op = "APPEND" ->
                    IF ~Has(2) THEN bad
                    ELSE Put(2, Appends(stack[n - 1], <<Top(stack)>>))
               [] o.op = "APPENDS" ->
                    IF m = 0 \/ ~(m >= 2 /\ stack[m - 1].k # "mark") THEN bad
                    ELSE Put(n - m + 2, Appends(stack[m - 1], SubSeq(stack, m + 1, n)))
               [] o.op = "SETITEM" ->
                    IF ~Has(3) THEN bad
                    ELSE Put(3, AssignItems(stack[n - 2], <<stack[n - 1], Top(stack)>>))
               [] o.op = "SETITEMS" ->
                    IF m = 0 \/ (n - m) % 2 = 1 \/ ~(m >= 2 /\ stack[m - 1].k # "mark")
                    THEN bad
                    ELSE Put(n - m + 2, AssignItems(stack[m - 1], SubSeq(stack, m + 1, n)))
               [] OTHER -> bad

StrList(item) == [i \in DOMAIN item.v |-> item.v[i].v]

\* path2sent, to_remove = pickle.load(f)
PickleLoad(ops) ==
    LET obj == Unpickle(ops, << >>)
    IN  IF obj.k = "error" THEN [raised |-> TRUE, path2sent |-> << >>, to_remove |-> << >>]
        ELSE [raised |-> FALSE,
              path2sent |-> [i \in DOMAIN obj.v[1].v |->
                                [key |-> obj.v[1].v[i].key.v,
                                 value |-> StrList(obj.v[1].v[i].value)]],
              to_remove |-> StrList(obj.v[2])]

(***************************************************************************)
(* Data frames.  Row i of a frame has the image path p<i>: __init__        *)
(* asserts that dicom_id is not duplicated, so paths are distinct.         *)
(***************************************************************************)
DigitChar == <<"1", "2", "3", "4", "5", "6", "7", "8", "9">>
Path(i) == <<"p", DigitChar[i]>>

Row(i, impression, split, view) ==
    [img_path |-> Path(i), impression |-> impression, split |-> split,
     ViewPosition |-> view]

\* reports used in frames of several rows: not a str, empty, one token, one
\* sentence, two sentences, a bulleted list, a sentence of non-ASCII tokens
CorpusImpressions ==
    { NotAString,
      << >>,
      <<"a">>,
      <<"a", " ", "a">>,
      <<"a", " ", "B", ".", "a", " ", "a">>,
      <<"1", ".", "a", " ", "a", "nl", "1", ".", "a">>,
      <<"u00e9", " ", "u00e9">>,
      <<"a", ".", "a", " ", "a", " ", "a">> }

Reports ==
    SeqsUpTo(Alphabet, MaxReportLen) \cup SeqsUpTo(PlainAlphabet, MaxPlainLen)

\* frames of n rows whose reports come from imps
RECURSIVE FramesOf(_, _)
FramesOf(imps, n) ==
    IF n = 0 THEN {<< >>}
    ELSE {Append(f, Row(n, i, "train", "AP")) : f \in FramesOf(imps, n - 1), i \in imps}

TextFrames ==
    FramesOf(Reports \cup {NotAString}, 1)
    \cup UNION {FramesOf(CorpusImpressions, n) : n \in 0..MaxRows}

(***************************************************************************)
(* Values of the variables a specification does not use.                   *)
(***************************************************************************)
NoMapping == [raised |-> FALSE, path2sent |-> << >>, to_remove |-> << >>,
              sent_lens |-> << >>, num_sents |-> << >>]
NoFile == [exists |-> FALSE, data |-> << >>]
NoCaption == [status |-> None, sent |-> << >>]
NoImg == [h |-> 0, w |-> 0, scale |-> 0]
NoResized == [raised |-> FALSE, max_ind |-> 0, resized_shape |-> <<0, 0>>]
NoOut == [raised |-> FALSE]

TextIdle ==
    /\ df = << >> /\ max_word_num = 0 /\ mapping = NoMapping
CacheIdle ==
    /\ file = NoFile /\ calls = << >> /\ builds = 0 /\ edits = 0 /\ caption = NoCaption
ProcsIdle ==
    /\ procs = << >> /\ overlap = FALSE
ResizeIdle ==
    /\ img = NoImg /\ resized = NoResized
CollateIdle ==
    /\ batch = << >> /\ out = NoOut

(***************************************************************************)
(* create_path_2_sent_mapping called on a data frame.                      *)
(***************************************************************************)
InitText ==
    /\ pc = "ready"
    /\ df \in TextFrames
    /\ max_word_num \in 1..MaxWordNum
    /\ mapping = NoMapping
    /\ CacheIdle /\ ProcsIdle /\ ResizeIdle /\ CollateIdle

CreateMapping ==
    /\ pc = "ready"
    /\ mapping' = CreatePath2SentMapping(df, max_word_num)
    /\ pc' = "done"
    /\ UNCHANGED <<df, max_word_num, file, calls, builds, edits, caption, procs,
                   overlap, img, resized, batch, out>>

NextText == CreateMapping

SpecText == InitText /\ [][NextText]_vars

\* number of tokens of a stored sentence (tokens hold no space)
TokenCount(sent) ==
    IF Len(sent) = 0 THEN 0 ELSE 1 + Cardinality({i \in DOMAIN sent : sent[i] = " "})

RECURSIVE SumTokens(_, _)
SumTokens(sents, k) == IF k = 0 THEN 0 ELSE SumTokens(sents, k - 1) + TokenCount(sents[k])

FramePaths(f) == {f[i].img_path : i \in DOMAIN f}

\* C2: once create_path_2_sent_mapping has gone through the rows of a frame
\* with distinct image paths, the keys of path2sent and the paths in to_remove
\* are disjoint and together are exactly the image paths of the frame.
C2_Partition ==
    pc = "done" =>
        /\ Keys(mapping.path2sent) \cap Range(mapping.to_remove) = {}
        /\ Keys(mapping.path2sent) \cup Range(mapping.to_remove) = FramePaths(df)

\* a frame with a kept row, a row without text and a row whose text gives no
\* sentence has been processed
C2_Witness ==
    /\ pc = "done"
    /\ Keys(mapping.path2sent) # {}
    /\ \E i \in DOMAIN df : df[i].impression = << >>
    /\ \E i \in DOMAIN df : df[i].impression = <<"a">> /\ df[i].img_path \in Range(mapping.to_remove)

\* C3: in every stored collection, a sentence that brings the running total
\* of included tokens to max_word_num or beyond is the last one of its report.
C3_HardCap ==
    pc = "done" =>
        \A i \in DOMAIN mapping.path2sent :
            \A k \in 1..(Len(mapping.path2sent[i].value) - 1) :
                SumTokens(mapping.path2sent[i].value, k) < max_word_num

\* C4: every stored sentence has at least two tokens.
C4_TwoTokens ==
    pc = "done" =>
        \A i \in DOMAIN mapping.path2sent :
            \A k \in DOMAIN mapping.path2sent[i].value :
                TokenCount(mapping.path2sent[i].value[k]) >= 2

\* C8: a row whose report is not a str is no key of path2sent and is in
\* to_remove, and the rows after it are processed all the same: every row
\* has its entry in num_sents and is a key or in to_remove.
C8_NonStringExcluded ==
    pc = "done" =>
        /\ \A i \in DOMAIN df :
               ~IsStr(df[i].impression) =>
                   /\ df[i].img_path \notin Keys(mapping.path2sent)
                   /\ df[i].img_path \in Range(mapping.to_remove)
        /\ Len(mapping.num_sents) = Len(df)
        /\ \A i \in DOMAIN df :
               df[i].img_path \in Keys(mapping.path2sent) \cup Range(mapping.to_remove)

\* the call returned for a frame whose first row has no str report and whose
\* second row was kept
C8_Witness ==
    /\ pc = "done"
    /\ ~mapping.raised
    /\ Len(df) >= 2
    /\ ~IsStr(df[1].impression)
    /\ df[2].img_path \in Keys(mapping.path2sent)

(***************************************************************************)
(* The dataset: __init__ (lines 20-64), load_text_data (lines 66-87) and   *)
(* get_caption (lines 89-112).                                             *)
(***************************************************************************)
\* rows of the merged tables: read_csv gives NaN for a missing impression
CacheRowKinds ==
    { [impression |-> <<"a">>, split |-> "train", ViewPosition |-> "AP"],
      [impression |-> <<"a">>, split |-> "validate", ViewPosition |-> "PA"],
      [impression |-> <<"a", " ", "a">>, split |-> "train", ViewPosition |-> "AP"],
      [impression |-> <<"a", " ", "a">>, split |-> "validate", ViewPosition |-> "AP"],
      [impression |-> <<"a", " ", "a", ".", "a", " ", "a">>, split |-> "train",
       ViewPosition |-> "PA"],
      [impression |-> NotAString, split |-> "train", ViewPosition |-> "AP"],
      [impression |-> <<"a", " ", "a">>, split |-> "train", ViewPosition |-> "LATERAL"] }

WithKind(frame, kind) ==
    Append(frame, Row(Len(frame) + 1, kind.impression, kind.split, kind.ViewPosition))

RECURSIVE CacheFramesOf(_)
CacheFramesOf(n) ==
    IF n = 0 THEN {<< >>}
    ELSE {WithKind(f, k) : f \in CacheFramesOf(n - 1), k \in CacheRowKinds}

CacheFrames == UNION {CacheFramesOf(n) : n \in 0..MaxCacheRows}

\* self.df after the filter of lines 55-58
FilterRows(rows) ==
    SelectSeq(rows, LAMBDA r : r.ViewPosition \in {"AP", "PA"} /\ r.impression # NotAString)

\* lines 21-22
SplitName(split) == IF split = "valid" THEN "validate" ELSE split

\* lines 84-85
Filenames(rows, split, path2sent, to_remove) ==
    LET of_split == SelectSeq(rows, LAMBDA r : r.split = split)
        kept == SelectSeq(of_split, LAMBDA r : r.img_path \notin Range(to_remove))
    IN  [i \in DOMAIN kept |-> kept[i].img_path]

NeverFile(f) == FALSE

\* os.path.isfile(filepath)
IsFile(f) == f.exists

\* load_text_data on self.df = rows with the caption file f: the call's record.
\* kind is "miss" when the captions were created and "hit" when they were
\* loaded; raised tells that create_path_2_sent_mapping or pickle.load raised;
\* file is the caption file after the call.
LoadTextData(rows, split, mwn, f) ==
    IF ~IsFile(f)
    THEN LET made == CreatePath2SentMapping(rows, mwn)
         IN  IF made.raised
             THEN [kind |-> "miss", raised |-> TRUE, split |-> split, filenames |-> << >>,
                   path2sent |-> << >>, to_remove |-> << >>, file |-> f]
             ELSE [kind |-> "miss", raised |-> FALSE, split |-> split,
                   filenames |-> Filenames(rows, split, made.path2sent, made.to_remove),
                   path2sent |-> made.path2sent, to_remove |-> made.to_remove,
                   file |-> [exists |-> TRUE,
                             data |-> PickleDump(made.path2sent, made.to_remove)]]
    ELSE LET got == PickleLoad(f.data)
         IN  IF got.raised
             THEN [kind |-> "hit", raised |-> TRUE, split |-> split, filenames |-> << >>,
                   path2sent |-> << >>, to_remove |-> << >>, file |-> f]
             ELSE [kind |-> "hit", raised |-> FALSE, split |-> split,
                   filenames |-> Filenames(rows, split, got.path2sent, got.to_remove),
                   path2sent |-> got.path2sent, to_remove |-> got.to_remove,
                   file |-> f]

\* get_caption up to the tokenizer call: the text chosen, or the error raised
GetCaptionText(path2sent, path, full_report, sent_ix) ==
    IF path \notin Keys(path2sent) THEN [status |-> "KeyError", sent |-> << >>]
    ELSE LET series_sents == DictGet(path2sent, path)
         IN  IF Len(series_sents) = 0 THEN [status |-> "Exception", sent |-> << >>]
             ELSE IF full_report THEN [status |-> "ok", sent |-> JoinSpace(series_sents)]
             ELSE [status |-> "ok", sent |-> series_sents[sent_ix + 1]]

InitCache ==
    /\ pc = "cache"
    /\ df \in CacheFrames
    /\ max_word_num \in 1..MaxWordNum
    /\ mapping = NoMapping
    /\ CacheIdle /\ ProcsIdle /\ ResizeIdle /\ CollateIdle

\* MultimodalPretrainingDataset(cfg, split)
Construct(split) ==
    /\ pc = "cache"
    /\ Len(calls) < MaxCalls
    /\ LET call == LoadTextData(FilterRows(df), SplitName(split), max_word_num, file)
       IN  /\ calls' = Append(calls, call)
           /\ file' = call.file
           /\ builds' = IF call.kind = "miss" THEN builds + 1 ELSE builds
    /\ caption' = NoCaption
    /\ UNCHANGED <<pc, df, max_word_num, mapping, edits, procs, overlap, img, resized,
                   batch, out>>

\* get_caption(self.filenames[index]) on the dataset constructed last
GetCaption(index, full_report) ==
    /\ pc = "cache"
    /\ Len(calls) > 0
    /\ ~calls[Len(calls)].raised
    /\ index \in DOMAIN calls[Len(calls)].filenames
    /\ LET ds == calls[Len(calls)]
           key == ds.filenames[index]
           n == IF key \in Keys(ds.path2sent) THEN Len(DictGet(ds.path2sent, key)) ELSE 0
       IN  \E sent_ix \in 0..Max(n - 1, 0) :
               caption' = GetCaptionText(ds.path2sent, key, full_report, sent_ix)
    /\ UNCHANGED <<pc, df, max_word_num, mapping, file, calls, builds, edits, procs,
                   overlap, img, resized, batch, out>>

\* the tables on disk gain a row between two runs
EditTables(kind) ==
    /\ pc = "cache"
    /\ edits < MaxEdits
    /\ Len(df) < MaxCacheRows
    /\ df' = WithKind(df, kind)
    /\ edits' = edits + 1
    /\ UNCHANGED <<pc, max_word_num, mapping, file, calls, builds, caption, procs,
                   overlap, img, resized, batch, out>>

ConstructAny == \E split \in {"train", "valid"} : Construct(split)
GetCaptionAny ==
    \E index \in 1..MaxCacheRows, full_report \in BOOLEAN : GetCaption(index, full_report)
EditTablesAny == \E kind \in CacheRowKinds : EditTables(kind)

NextCacheFixed == ConstructAny
SpecCacheFixed == InitCache /\ [][NextCacheFixed]_vars

NextCache == ConstructAny \/ GetCaptionAny \/ EditTablesAny
SpecCache == InitCache /\ [][NextCache]_vars

\* C6: after any load_text_data call that returned, every path in filenames
\* is a key of path2sent with a non-empty collection, and get_caption on an
\* index of the dataset raises neither the KeyError nor the no-sentence error.
C6_FilenamesInMapping ==
    /\ \A c \in DOMAIN calls :
           ~calls[c].raised =>
               \A i \in DOMAIN calls[c].filenames :
                   /\ calls[c].filenames[i] \in Keys(calls[c].path2sent)
                   /\ Len(DictGet(calls[c].path2sent, calls[c].filenames[i])) > 0
    /\ caption.status \in {None, "ok"}

\* C7: with the tables and max_word_num fixed and the file absent at first,
\* once the first call has returned, every later call is a hit that returns
\* the same path2sent and to_remove (and the same filenames for the same
\* split), runs create_path_2_sent_mapping no further time and leaves the
\* file as the first call wrote it.
C7_HitEqualsBuild ==
    (Len(calls) > 0 /\ ~calls[1].raised) =>
        /\ calls[1].kind = "miss"
        /\ calls[1].file.exists
        /\ builds = 1
        /\ file = calls[1].file
        /\ \A c \in 2..Len(calls) :
               /\ calls[c].kind = "hit"
               /\ ~calls[c].raised
               /\ calls[c].path2sent = calls[1].path2sent
               /\ calls[c].to_remove = calls[1].to_remove
               /\ calls[c].file = calls[1].file
               /\ \A b \in 1..Len(calls) :
                      calls[b].split = calls[c].split =>
                          calls[b].filenames = calls[c].filenames

\* a build that kept one path and excluded another was followed by a hit
C7_Witness ==
    /\ Len(calls) >= 2
    /\ calls[1].kind = "miss" /\ ~calls[1].raised
    /\ calls[1].path2sent # << >> /\ calls[1].to_remove # << >>
    /\ calls[2].kind = "hit" /\ ~calls[2].raised
    /\ calls[2].filenames # << >>

(***************************************************************************)
(* load_text_data (lines 69-87) called by several processes at once.  Each *)
(* process goes through the file operations of the call one at a time:     *)
(*   check  os.path.isfile, and on a miss create_path_2_sent_mapping       *)
(*   open   open(filepath, "wb"): the file exists and is empty             *)
(*   dump   pickle.dump: the buffered writer may flush a part of the data  *)
(*   close  leaving the with block: the rest of the data is written        *)
(*   load   open(filepath, "rb") and pickle.load                           *)
(* Each writer has its own file offset: a write lands at the offset the    *)
(* writer has reached, and bytes never written below it read as NUL.       *)
(***************************************************************************)
ConcFrames ==
    { << >>,
      <<Row(1, <<"a", " ", "a">>, "train", "AP")>>,
      <<Row(1, <<"a", " ", "a">>, "train", "AP"), Row(2, <<"a">>, "train", "PA")>>,
      <<Row(1, <<"a">>, "train", "AP"),
        Row(2, <<"a", " ", "a", ".", "a", " ", "a">>, "train", "AP")>> }

NewProc == [pc |-> "check", kind |-> None, raised |-> FALSE, off |-> 0,
            path2sent |-> << >>, to_remove |-> << >>, filenames |-> << >>]

InBuild(p) == procs[p].pc \in {"open", "dump", "close"}

\* the file contents after chunk is written at offset off: a write of
\* nothing leaves the file as it is, a write beyond the end leaves a hole
\* that reads as NUL
WriteAt(data, off, chunk) ==
    IF Len(chunk) = 0 THEN data
    ELSE LET n == Max(Len(data), off + Len(chunk))
         IN  [i \in 1..n |-> IF i > off /\ i <= off + Len(chunk) THEN chunk[i - off]
                             ELSE IF i <= Len(data) THEN data[i]
                             ELSE Op("NUL", << >>)]

InitConc ==
    /\ pc = "concurrent"
    /\ df \in ConcFrames
    /\ max_word_num \in 1..MaxWordNum
    /\ mapping = NoMapping
    /\ CacheIdle
    /\ procs = [p \in 1..NumProcs |-> NewProc]
    /\ overlap = FALSE
    /\ ResizeIdle /\ CollateIdle

ConcUnchanged == UNCHANGED <<pc, df, max_word_num, mapping, calls, edits, caption, img,
                             resized, batch, out>>

\* line 70, and lines 72-74 on a miss
Check(p) ==
    /\ procs[p].pc = "check"
    /\ overlap' = (overlap \/ \E q \in DOMAIN procs : q # p /\ InBuild(q))
    /\ IF ~IsFile(file)
       THEN LET made == CreatePath2SentMapping(FilterRows(df), max_word_num)
            IN  /\ procs' = [procs EXCEPT ![p] =
                        [@ EXCEPT !.kind = "miss",
                                  !.raised = made.raised,
                                  !.pc = IF made.raised THEN "done" ELSE "open",
                                  !.path2sent = IF made.raised THEN << >> ELSE made.path2sent,
                                  !.to_remove = IF made.raised THEN << >> ELSE made.to_remove]]
                /\ builds' = builds + 1
       ELSE /\ procs' = [procs EXCEPT ![p] = [@ EXCEPT !.kind = "hit", !.pc = "load"]]
            /\ builds' = builds
    /\ UNCHANGED file
    /\ ConcUnchanged

\* line 75
OpenWrite(p) ==
    /\ procs[p].pc = "open"
    /\ file' = [exists |-> TRUE, data |-> << >>]
    /\ procs' = [procs EXCEPT ![p] = [@ EXCEPT !.pc = "dump", !.off = 0]]
    /\ UNCHANGED <<builds, overlap>>
    /\ ConcUnchanged

\* line 76: pickle.dump hands the whole pickle to the buffered writer in one
\* write.  The writer keeps data that fits its buffer (k = 0) and passes
\* larger data on to write(2), which a reader can see completed (k = Len) or
\* in part; what is left is written when the with block ends.
Dump(p) ==
    /\ procs[p].pc = "dump"
    /\ LET bytes == PickleDump(procs[p].path2sent, procs[p].to_remove)
       IN  \E k \in 0..Len(bytes) :
               /\ file' = [file EXCEPT !.data = WriteAt(@, 0, SubSeq(bytes, 1, k))]
               /\ procs' = [procs EXCEPT ![p] = [@ EXCEPT !.pc = "close", !.off = k]]
    /\ UNCHANGED <<builds, overlap>>
    /\ ConcUnchanged

\* end of the with block of line 75: what the writer still holds is written
\* at its offset, nothing when it holds nothing; then lines 84-87
Close(p) ==
    /\ procs[p].pc = "close"
    /\ LET bytes == PickleDump(procs[p].path2sent, procs[p].to_remove)
       IN  file' = [file EXCEPT !.data =
                       WriteAt(@, procs[p].off, SubSeq(bytes, procs[p].off + 1, Len(bytes)))]
    /\ procs' = [procs EXCEPT ![p] =
            [@ EXCEPT !.pc = "done",
                      !.filenames = Filenames(FilterRows(df), "train",
                                              procs[p].path2sent, procs[p].to_remove)]]
    /\ UNCHANGED <<builds, overlap>>
    /\ ConcUnchanged

\* lines 79-81, then lines 84-87
Load(p) ==
    /\ procs[p].pc = "load"
    /\ LET got == PickleLoad(file.data)
       IN  procs' = [procs EXCEPT ![p] =
               [@ EXCEPT !.pc = "done",
                         !.raised = got.raised,
                         !.path2sent = got.path2sent,
                         !.to_remove = got.to_remove,
                         !.filenames = IF got.raised THEN << >>
                                       ELSE Filenames(FilterRows(df), "train",
                                                      got.path2sent, got.to_remove)]]
    /\ UNCHANGED <<file, builds, overlap>>
    /\ ConcUnchanged

NextConc ==
    \E p \in 1..NumProcs : Check(p) \/ OpenWrite(p) \/ Dump(p) \/ Close(p) \/ Load(p)

SpecConc == InitConc /\ [][NextConc]_vars

\* what a finished build writes for the tables
BuiltPair == CreatePath2SentMapping(FilterRows(df), max_word_num)

HitsReadBuiltPair ==
    \A p \in DOMAIN procs :
        (procs[p].kind = "hit" /\ procs[p].pc = "done") =>
            /\ ~procs[p].raised
            /\ procs[p].path2sent = BuiltPair.path2sent
            /\ procs[p].to_remove = BuiltPair.to_remove

\* the calls that took the build branch and have opened the file for writing
Writers ==
    {p \in DOMAIN procs : procs[p].kind = "miss" /\ procs[p].pc \in {"dump", "close", "done"}
                           /\ ~procs[p].raised}

\* C10 as stated: under any interleaving, every call that took the hit branch
\* loaded the complete pair of a finished build, and at most one call took
\* the build branch and wrote the file.
C10_AnyInterleaving ==
    pc = "concurrent" => (HitsReadBuiltPair /\ Cardinality(Writers) <= 1)

\* C10 amended: the same, provided no call tested the file while another
\* call was in its build branch.
C10_Serialized ==
    (pc = "concurrent" /\ ~overlap) => (HitsReadBuiltPair /\ Cardinality(Writers) <= 1)

\* without overlap, one call built and wrote the file and another loaded it
C10_Witness ==
    /\ pc = "concurrent"
    /\ ~overlap
    /\ \E p, q \in DOMAIN procs :
           /\ procs[p].pc = "done" /\ procs[p].kind = "miss" /\ ~procs[p].raised
           /\ procs[q].pc = "done" /\ procs[q].kind = "hit"
           /\ procs[q].path2sent # << >> /\ procs[q].to_remove # << >>

(***************************************************************************)
(* _resize_img called on an image of shape (h, w).                         *)
(***************************************************************************)
InitResize ==
    /\ pc = "ready"
    /\ img \in [h : 1..MaxDim, w : 1..MaxDim, scale : 1..MaxScale]
    /\ resized = NoResized
    /\ TextIdle /\ CacheIdle /\ ProcsIdle /\ CollateIdle

Resize ==
    /\ pc = "ready"
    /\ resized' = ResizeImg(img.h, img.w, img.scale)
    /\ pc' = "done"
    /\ UNCHANGED <<df, max_word_num, mapping, file, calls, builds, edits, caption,
                   procs, overlap, img, batch, out>>

NextResize == Resize

SpecResize == InitResize /\ [][NextResize]_vars

Min(a, b) == IF a <= b THEN a ELSE b

\* C5: _resize_img returns an image of scale x scale; the longer side is
\* resized to scale and not padded, the shorter side is resized to
\* floor(shorter * scale / longer) and padded with floor(pad / 2) zeros
\* before and ceil(pad / 2) zeros after, pad = scale - resized side.
C5_SquareOutput ==
    pc = "done" =>
        /\ ~resized.raised
        /\ resized.shape = <<img.scale, img.scale>>
        /\ LET long == IF resized.max_ind = 0 THEN 1 ELSE 2
               short == 3 - long
               lead == IF resized.max_ind = 0 THEN resized.left ELSE resized.top
               trail == IF resized.max_ind = 0 THEN resized.right ELSE resized.bottom
               pad == img.scale - resized.resized_shape[short]
           IN  /\ resized.resized_shape[long] = img.scale
               /\ resized.resized_shape[short] =
                      (Min(img.h, img.w) * img.scale) \div Max(img.h, img.w)
               /\ resized.top + resized.bottom + resized.left + resized.right = pad
               /\ lead = pad \div 2
               /\ trail = pad - pad \div 2
               /\ lead <= trail /\ trail - lead <= 1

(***************************************************************************)
(* Tensors: [shape, data], data in row-major order.                        *)
(***************************************************************************)
RECURSIVE Product(_)
Product(dims) == IF Len(dims) = 0 THEN 1 ELSE Head(dims) * Product(Tail(dims))

\* torch.stack of tensors of one shape
Stack(ts) ==
    [shape |-> <<Len(ts)>> \o ts[1].shape,
     data |-> Flatten([i \in DOMAIN ts |-> ts[i].data])]

\* Tensor.squeeze(): every dimension of size 1 goes
Squeeze(t) == [shape |-> SelectSeq(t.shape, LAMBDA d : d # 1), data |-> t.data]

\* t[i] for a tensor of one dimension or more (i from 1)
Slice(t, i) ==
    LET n == Product(Tail(t.shape))
    IN  [shape |-> Tail(t.shape), data |-> SubSeq(t.data, (i - 1) * n + 1, i * n)]

\* t[indices] for a tensor of indices: a tensor without dimensions cannot be
\* indexed (IndexError)
IndexBy(t, indices) ==
    IF Len(t.shape) = 0 THEN [raised |-> TRUE, shape |-> << >>, data |-> << >>]
    ELSE [raised |-> FALSE,
          shape |-> <<Len(indices)>> \o Tail(t.shape),
          data |-> Flatten([i \in DOMAIN indices |-> Slice(t, indices[i]).data])]

Perms(n) == {f \in [1..n -> 1..n] : \A i, j \in 1..n : i # j => f[i] # f[j]}

\* the index tensors torch.sort(torch.tensor(cap_len), 0, True) may return:
\* stable is left at False, so equal lengths come in any order
SortIndices(cap_len) ==
    {perm \in Perms(Len(cap_len)) :
        \A i \in 1..(Len(cap_len) - 1) : cap_len[perm[i]] >= cap_len[perm[i + 1]]}

(***************************************************************************)
(* multimodal_collate_fn (lines 267-299).  Sample i of a batch is what     *)
(* __getitem__ returns: the image (here a tensor holding i), the tokenizer *)
(* output of shape (1, word_num) whose first cap_l ids are not 0, cap_l    *)
(* and the path.  The BERT tokenizer always emits [CLS] and [SEP], so      *)
(* cap_l and word_num are at least MinTokens.                              *)
(***************************************************************************)
Sample(i, cap_l, word_num) ==
    [img |-> [shape |-> <<1>>, data |-> <<i>>],
     cap |-> [input_ids |-> [shape |-> <<1, word_num>>,
                             data |-> [k \in 1..word_num |->
                                          IF k <= cap_l THEN 10 * i + k ELSE 0]],
              token_type_ids |-> [shape |-> <<1, word_num>>,
                                  data |-> [k \in 1..word_num |-> 0]],
              attention_mask |-> [shape |-> <<1, word_num>>,
                                  data |-> [k \in 1..word_num |->
                                               IF k <= cap_l THEN 1 ELSE 0]]],
     cap_l |-> cap_l,
     path |-> Path(i)]

MinTokens == 2

Batches ==
    UNION {{[i \in 1..n |-> Sample(i, lens[i], word_num)] :
               lens \in [1..n -> MinTokens..word_num]} :
              n \in 1..MaxBatch, word_num \in MinTokens..MaxTokens}

MultimodalCollateFn(b, sorted_cap_indices) ==
    LET imgs == Stack([i \in DOMAIN b |-> b[i].img])
        cap_len == [i \in DOMAIN b |-> b[i].cap_l]
        ids == Squeeze(Stack([i \in DOMAIN b |-> b[i].cap.input_ids]))
        tokens == Squeeze(Stack([i \in DOMAIN b |-> b[i].cap.token_type_ids]))
        attention == Squeeze(Stack([i \in DOMAIN b |-> b[i].cap.attention_mask]))
        path == [i \in DOMAIN b |-> b[i].path]
    IN  IF IndexBy(ids, sorted_cap_indices).raised THEN [raised |-> TRUE]
        ELSE [raised |-> FALSE,
              caption_ids |-> IndexBy(ids, sorted_cap_indices),
              token_type_ids |-> IndexBy(tokens, sorted_cap_indices),
              attention_mask |-> IndexBy(attention, sorted_cap_indices),
              imgs |-> IndexBy(imgs, sorted_cap_indices),
              cap_lens |-> [i \in DOMAIN b |-> cap_len[sorted_cap_indices[i]]],
              path |-> path]

InitCollate ==
    /\ pc = "ready"
    /\ batch \in Batches
    /\ out = NoOut
    /\ TextIdle /\ CacheIdle /\ ProcsIdle /\ ResizeIdle

Collate ==
    /\ pc = "ready"
    /\ \E sorted_cap_indices \in SortIndices([i \in DOMAIN batch |-> batch[i].cap_l]) :
           out' = MultimodalCollateFn(batch, sorted_cap_indices)
    /\ pc' = "done"
    /\ UNCHANGED <<df, max_word_num, mapping, file, calls, builds, edits, caption,
                   procs, overlap, img, resized, batch>>

NextCollate == Collate

SpecCollate == InitCollate /\ [][NextCollate]_vars

\* C1: cap_lens is in non-increasing order, and at every output position i
\* the path, the image and the caption ids are those of one input sample,
\* whose caption length is cap_lens[i].
C1_SamePermutation ==
    pc = "done" =>
        /\ ~out.raised
        /\ \A i \in 1..(Len(batch) - 1) : out.cap_lens[i] >= out.cap_lens[i + 1]
        /\ \A i \in DOMAIN batch :
               \E j \in DOMAIN batch :
                   /\ out.cap_lens[i] = batch[j].cap_l
                   /\ out.path[i] = batch[j].path
                   /\ Slice(out.imgs, i).data = batch[j].img.data
                   /\ Slice(out.caption_ids, i).data = batch[j].cap.input_ids.data

\* C9: of two samples with equal caption length, the one that was earlier in
\* the batch is earlier in the output (imgs[i] holds the input position).
C9_StableOrder ==
    (pc = "done" /\ ~out.raised) =>
        \A i, j \in DOMAIN batch :
            (i < j /\ out.cap_lens[i] = out.cap_lens[j]) =>
                Slice(out.imgs, i).data[1] < Slice(out.imgs, j).data[1]

====
